---- MODULE Spec2Model ----
(***************************************************************************)
(* Model of the hybrid-search pipeline of python-ml-service:               *)
(*   services/database.py  DatabaseService (availability gate, queries)    *)
(*   services/search.py    SearchService   (fan-out, fusion, formatting)   *)
(*   services/rerank.py    RerankService   (lazy model load, reranking)    *)
(*   endpoints/search.py   the POST /api/ml/search handler                 *)
(*                                                                         *)
(* Python values that may be of several types are records with a "kind"    *)
(* field; a call that may raise returns a record with a "raised" field.    *)
(* Every handler of the service runs on the single event-loop thread and   *)
(* the synchronous parts of a handler are therefore one atomic action.     *)
(***************************************************************************)
EXTENDS Integers, Sequences, FiniteSets, TLC

VARIABLES
    client,                        \* DatabaseService._client is set
    is_hybrid_search_available,    \* DatabaseService._is_hybrid_search_available
    lastOp,                        \* the last operation on db_service / the endpoint, with its inputs and outcome
    model,                         \* RerankService.model is set
    loaded,                        \* RerankService.loaded
    started,                       \* the application's startup (lifespan) has run
    loadLog,                       \* the from_pretrained attempts so far: who made each, and its outcome
    rrOp,                          \* the last rerank_results call, with its inputs and outcome
    cfgs,                          \* search_all: the search_configs, as their table names
    tstate,                        \* search_all: where each source's task is
    outcome,                       \* search_all: what each source's search_table call ended with
    ready,                         \* the event loop's queue of callbacks
    workQueue,                     \* the executor's queue of submitted calls no worker has taken
    outer,                         \* the future of asyncio.gather
    pcS,                           \* search_all: where the coroutine is
    saResult,                      \* search_all: what the caller got
    sentQueries,                   \* search_all: the queries submitted to the store, per source
    firstFailed,                   \* search_all: the source whose search_table call was the first to raise (0: none)
    pipe,                          \* one run of fusion, formatting and the handler's final stage
    sql,                           \* one query of search_table on its way through execute_query
    ocr                            \* OpenRouterOCRModel: its model list and the extract_text_with_retry call in flight

gateVars == <<client, is_hybrid_search_available, lastOp>>

rerankVars == <<model, loaded, started, loadLog, rrOp>>

fanVars == <<cfgs, tstate, outcome, ready, workQueue, outer, pcS, saResult, sentQueries,
             firstFailed>>

vars == <<client, is_hybrid_search_available, lastOp, model, loaded, started, loadLog, rrOp,
          cfgs, tstate, outcome, ready, workQueue, outer, pcS, saResult, sentQueries,
          firstFailed, pipe, sql, ocr>>

(***************************************************************************)
(* Bounds of the model                                                     *)
(***************************************************************************)
MaxConfigs == 1
MaxResults == 5
MaxLoads == 3
MaxSources == 5
MaxRows == 3
MaxOver == 3
MaxFilters == 2
MaxModels == 3

\* Query texts of a request, as sequences of characters: "sp" is a blank.
QueryTexts == {<<>>, <<"sp">>, <<"sp", "sp">>, <<"a">>, <<"sp", "a", "sp">>}

\* The outcomes the backing store can give to one availability probe
\* (database.py:79-122): each step either succeeds or raises.
ProbeEnvs ==
    [connectOk : BOOLEAN, basicOk : BOOLEAN, versionOk : BOOLEAN,
     f1 : BOOLEAN, f2 : BOOLEAN, f3 : BOOLEAN]

NoEnv == [connectOk |-> TRUE, basicOk |-> TRUE, versionOk |-> TRUE,
          f1 |-> TRUE, f2 |-> TRUE, f3 |-> TRUE]

(***************************************************************************)
(* DatabaseService                                                         *)
(***************************************************************************)

\* connect(): returns the existing client, or creates one; raises when the
\* connection cannot be made (the client then stays unset).
connect(c, e) ==
    IF c THEN [raised |-> FALSE, client |-> TRUE]
    ELSE IF e.connectOk THEN [raised |-> FALSE, client |-> TRUE]
    ELSE [raised |-> TRUE, client |-> FALSE]

\* A variant of the similarity test that gives up after the first form.
VectorProbeFirstFormOnly(e) ==
    IF e.f1 THEN [raised |-> FALSE, queries |-> <<"VEC1">>]
    ELSE [raised |-> TRUE, queries |-> <<"VEC1">>]

\* The vector-similarity test in its three syntactic forms, each tried only
\* after the one before it raised; the third failure is re-raised.
VectorProbe(e) ==
    IF e.f1 THEN [raised |-> FALSE, queries |-> <<"VEC1">>]
    ELSE IF e.f2 THEN [raised |-> FALSE, queries |-> <<"VEC1", "VEC2">>]
    ELSE IF e.f3 THEN [raised |-> FALSE, queries |-> <<"VEC1", "VEC2", "VEC3">>]
    ELSE [raised |-> TRUE, queries |-> <<"VEC1", "VEC2", "VEC3">>]

\* The body of the outer try of check_hybrid_search_available: connect, the
\* connectivity check, the version query (its failure is swallowed), and the
\* vector-similarity test.
ProbeBody(c, e) ==
    LET k == connect(c, e) IN
    IF k.raised THEN [raised |-> TRUE, client |-> k.client, queries |-> <<>>]
    ELSE IF ~e.basicOk THEN [raised |-> TRUE, client |-> k.client, queries |-> <<"SELECT1">>]
    ELSE LET v == VectorProbe(e)
         IN  [raised |-> v.raised, client |-> k.client,
              queries |-> <<"SELECT1", "VERSION">> \o v.queries]

\* check_hybrid_search_available(): the cached value if there is one, else
\* the probe, whose outcome (True, or False on any exception) is cached.
check_hybrid_search_available(c, cache, e) ==
    IF cache # "None"
    THEN [raised |-> FALSE, ret |-> cache, cache |-> cache,
          client |-> c, queries |-> <<>>]
    ELSE LET b == ProbeBody(c, e) IN
         [raised |-> FALSE, ret |-> IF b.raised THEN "False" ELSE "True",
          cache |-> IF b.raised THEN "False" ELSE "True",
          client |-> b.client, queries |-> b.queries]

\* execute_query(): connect, then run the query; either step may raise, and
\* the exception is re-raised to the caller.
execute_query(c, e) ==
    LET k == connect(c, e) IN
    IF k.raised THEN [raised |-> TRUE, client |-> k.client, queries |-> <<>>]
    ELSE [raised |-> ~e.basicOk, client |-> k.client, queries |-> <<"QUERY">>]

\* The store outcomes execute_query can meet: the connection and the query.
QueryEnvs == {e \in ProbeEnvs : e.versionOk /\ e.f1 /\ e.f2 /\ e.f3}

\* The store's outcome is drawn only for an operation that reaches the
\* store: one that issues no query when every query would succeed issues
\* none at all.
EnvsOf(queriesIfHealthy, envs) == IF queriesIfHealthy = <<>> THEN {NoEnv} ELSE envs

\* A variant of close() that also forgets the cached capability.
close_cache_mut(cache) == "None"

\* close() resets the client reference; the cached capability is kept.
close_cache(cache) == cache

(***************************************************************************)
(* The search endpoint                                                     *)
(***************************************************************************)

IsSpace(ch) == ch = "sp"

RECURSIVE LStrip(_)
LStrip(s) == IF s # <<>> /\ IsSpace(Head(s)) THEN LStrip(Tail(s)) ELSE s

RECURSIVE RStrip(_)
RStrip(s) ==
    IF s # <<>> /\ IsSpace(s[Len(s)]) THEN RStrip(SubSeq(s, 1, Len(s) - 1)) ELSE s

\* str.strip()
Strip(s) == RStrip(LStrip(s))

Limits == {0, 2}

Requests ==
    [query : QueryTexts, embeddingLen : 0..1,
     nconfigs : 0..MaxConfigs, limit : Limits, rerank : BOOLEAN]

\* Calling the coroutine function search_all without awaiting it runs none
\* of its body and yields a coroutine object.
search_all_call == [kind |-> "coroutine", rows |-> <<>>]

\* format_search_results starts by iterating its argument; anything but a
\* list of rows raises TypeError there.
format_iter_raises(v) == v.kind # "list"

\* A variant of the handler's gate that lets the request through.
gate_blocks_mut(g) == FALSE

\* The handler's gate: the request is refused when the check returns false.
gate_blocks(g) == g.ret # "True"

\* The handler: validation, the gate, then search_all / format / rerank.
\* raw_results is the un-awaited coroutine object, so formatting raises and
\* the request ends as an internal error before any source query or rerank.
search(req, c, cache, e) ==
    LET none == [status |-> 0, client |-> c, cache |-> cache, queries |-> <<>>,
                 gate |-> "None", executorCalls |-> 0, rerankCalls |-> 0]
    IN
    IF req.query = <<>> \/ Strip(req.query) = <<>> THEN [none EXCEPT !.status = 400]
    ELSE IF req.embeddingLen = 0 THEN [none EXCEPT !.status = 400]
    ELSE IF req.nconfigs = 0 THEN [none EXCEPT !.status = 400]
    ELSE LET g == check_hybrid_search_available(c, cache, e)
             after == [none EXCEPT !.client = g.client, !.cache = g.cache,
                                   !.queries = g.queries, !.gate = g.ret]
         IN  IF gate_blocks(g) THEN [after EXCEPT !.status = 503]
             ELSE LET raw_results == search_all_call IN
                  IF format_iter_raises(raw_results) THEN [after EXCEPT !.status = 500]
                  ELSE [after EXCEPT !.status = 200]

NoReq == [query |-> <<>>, embeddingLen |-> 0, nconfigs |-> 0, limit |-> 0, rerank |-> FALSE]

Op(name, req, e, c0, cache0, status, ret, raised, queries, ex, rr) ==
    [op |-> name, req |-> req, env |-> e, clientBefore |-> c0, cacheBefore |-> cache0,
     status |-> status, ret |-> ret, raised |-> raised, queries |-> queries,
     executorCalls |-> ex, rerankCalls |-> rr]

GateInit ==
    /\ client = FALSE
    /\ is_hybrid_search_available = "None"
    /\ lastOp = Op("init", NoReq, NoEnv, FALSE, "None", 0, "None", FALSE, <<>>, 0, 0)

(***************************************************************************)
(* RerankService                                                           *)
(***************************************************************************)

\* Scores are in tenths: 5 stands for 0.5.
FallbackScore == 5
SmallSetSize == 3
RerankCap == 20
BatchSize == 8

NoScore == [set |-> FALSE, val |-> 0]

\* The shapes of the result lists handed to rerank_results: "formatted" is
\* what format_search_results produces (types in turn), "nokey" has an item
\* without the 'excerpt' key in second place.
Shapes == {"formatted", "nokey"}

TypeOf(i) ==
    IF i % 3 = 1 THEN "golden_answer" ELSE IF i % 3 = 2 THEN "message" ELSE "knowledge_base"

\* The i-th of n results in fused order: scores do not increase with i.
Item(i, n, shape) ==
    [id |-> i, type |-> TypeOf(i), score |-> 10 * ((n - i) \div 2),
     hasContent |-> TypeOf(i) # "message",
     hasExcerpt |-> TypeOf(i) # "golden_answer" /\ ~(shape = "nokey" /\ i = 2),
     rerank_score |-> NoScore]

Items(n, shape) == [i \in 1..n |-> Item(i, n, shape)]

TopKs == {0, 2, 5, 25}

\* The lengths of the lists handed to rerank_results: the short ones, and one
\* beyond the cap.
ResultCounts == 0..MaxResults \cup {RerankCap + 2}

\* What the model does when asked to score: "ok" returns a score per pair,
\* "raise_first" / "raise_last" raise in the first / last batch, "noattr" is
\* a model without compute_score, "unsortable" returns values that cannot be
\* compared with each other.
Scorings == {"ok", "raise_first", "raise_last", "noattr", "unsortable"}

\* The raw score a working model gives to the pair of document i.
ScorePatterns == {"asc", "desc", "ties"}

RawScore(pattern, i) ==
    IF pattern = "asc" THEN 10 * i
    ELSE IF pattern = "desc" THEN 0 - 10 * i
    ELSE 10 * (i % 2)

RerankEnvs == [loadOk : BOOLEAN, scoring : Scorings, pattern : ScorePatterns]

NoRerankEnv == [loadOk |-> TRUE, scoring |-> "ok", pattern |-> "desc"]

\* list[:k] of Python
Take(s, k) ==
    IF k >= 0 THEN SubSeq(s, 1, IF k < Len(s) THEN k ELSE Len(s))
    ELSE SubSeq(s, 1, IF Len(s) + k > 0 THEN Len(s) + k ELSE 0)

\* load_model(): nothing when loaded; else one from_pretrained attempt, whose
\* failure is caught and leaves model unset and loaded False.
load_model(m, l, ok) ==
    IF ~l
    THEN IF ok THEN [model |-> TRUE, loaded |-> TRUE, attempts |-> <<TRUE>>]
         ELSE [model |-> FALSE, loaded |-> FALSE, attempts |-> <<FALSE>>]
    ELSE [model |-> m, loaded |-> l, attempts |-> <<>>]

\* Lines 85-93: the pair of one result; a missing key raises KeyError.
Pair(r) ==
    IF r.type = "golden_answer"
    THEN [raised |-> ~r.hasContent, doc |-> r.id, text |-> "content"]
    ELSE [raised |-> ~r.hasExcerpt, doc |-> r.id, text |-> "excerpt"]

NumBatches(n) == (n + BatchSize - 1) \div BatchSize

\* _compute_scores(): batches of 8 through model.compute_score; an exception
\* in any batch, or a model without compute_score, gives 0.5 for every pair.
compute_scores(pairs, e) ==
    IF e.scoring = "noattr"
    THEN [comparable |-> TRUE, scores |-> [i \in 1..Len(pairs) |-> FallbackScore]]
    ELSE IF e.scoring \in {"raise_first", "raise_last"} /\ NumBatches(Len(pairs)) >= 1
    THEN [comparable |-> TRUE, scores |-> [i \in 1..Len(pairs) |-> FallbackScore]]
    ELSE [comparable |-> e.scoring # "unsortable",
          scores |-> [i \in 1..Len(pairs) |-> RawScore(e.pattern, pairs[i].doc)]]

\* A variant that inserts x before the elements of equal score.
RECURSIVE InsertDesc_mut(_, _)
InsertDesc_mut(sorted, x) ==
    IF sorted = <<>> THEN <<x>>
    ELSE IF Head(sorted).score > x.score
    THEN <<Head(sorted)>> \o InsertDesc_mut(Tail(sorted), x)
    ELSE <<x>> \o sorted

\* Insert x behind every element whose score is not smaller: equal scores
\* keep their order.
RECURSIVE InsertDesc(_, _)
InsertDesc(sorted, x) ==
    IF sorted = <<>> THEN <<x>>
    ELSE IF Head(sorted).score >= x.score THEN <<Head(sorted)>> \o InsertDesc(Tail(sorted), x)
    ELSE <<x>> \o sorted

\* A variant that leaves the list in the order given.
SortDesc_mut(s) == s

\* list.sort(key = score, reverse = True): stable, descending
RECURSIVE SortDesc(_)
SortDesc(s) ==
    IF s = <<>> THEN <<>>
    ELSE CHOOSE out \in {InsertDesc(r, s[Len(s)]) :
                            r \in {SortDesc(p) : p \in {SubSeq(s, 1, Len(s) - 1)}}} : TRUE

\* The outcome of a call: what it returned or raised, the service's fields
\* after it, the loads it attempted, the pairs it handed to the model and
\* the caller's list as the call left it.
Ok(v, ld, sent, inp) == [raised |-> FALSE, exc |-> "", value |-> v,
                         model |-> ld.model, loaded |-> ld.loaded, attempts |-> ld.attempts,
                         scored |-> sent, input |-> inp]

Raise(x, ld, sent, inp) == [raised |-> TRUE, exc |-> x, value |-> <<>>,
                            model |-> ld.model, loaded |-> ld.loaded, attempts |-> ld.attempts,
                            scored |-> sent, input |-> inp]

\* A variant that writes the score on the caller's item: no `.copy()`.
annotate_mut(results, s) ==
    LET result == [results[s.idx] EXCEPT !.rerank_score = [set |-> TRUE, val |-> s.score]]
    IN  [result |-> result, results |-> [results EXCEPT ![s.idx] = result]]

\* Lines 108-112: `result = results[idx].copy()`, then
\* `result['rerank_score'] = float(score)`: the item written and the
\* caller's list after the write.
annotate(results, s) ==
    [result |-> [results[s.idx] EXCEPT !.rerank_score = [set |-> TRUE, val |-> s.score]],
     results |-> results]

\* Lines 107-114: the loop over scored_results[:top_k]; every index occurs
\* once, so each write reads the item as the caller supplied it.
rerank_loop(results, top) ==
    [reranked |-> [j \in 1..Len(top) |-> annotate(results, top[j]).result],
     results |-> [i \in 1..Len(results) |->
                    IF \E j \in 1..Len(top) : top[j].idx = i
                    THEN annotate(results, top[CHOOSE j \in 1..Len(top) : top[j].idx = i]).results[i]
                    ELSE results[i]]]

\* The pairs that reach model.compute_score, each as the result it is of and
\* the field its text is: none for a model without that method, the first
\* batch when it raises there, else all.
SentToModel(pairs, e) ==
    LET docs == [i \in 1..Len(pairs) |-> [doc |-> pairs[i].doc, text |-> pairs[i].text]] IN
    IF e.scoring = "noattr" THEN <<>>
    ELSE IF e.scoring = "raise_first" THEN Take(docs, BatchSize)
    ELSE docs

\* A variant that pairs every result with the query.
candidates_mut(results) == results

\* Line 85: `results[:20]`
candidates(results) == Take(results, RerankCap)

\* The try body of rerank_results (lines 71-117).
rerank_try(results, top_k, m, l, e) ==
    LET ld == IF ~l THEN load_model(m, l, e.loadOk)
              ELSE [model |-> m, loaded |-> l, attempts |-> <<>>]
        cand == candidates(results)
        pairs == [i \in 1..Len(cand) |-> Pair(cand[i])]
        cs == compute_scores(pairs, e)
        nscored == IF Len(cs.scores) < Len(cand) THEN Len(cs.scores) ELSE Len(cand)
        scored_results == SortDesc([i \in 1..nscored |-> [idx |-> i, score |-> cs.scores[i]]])
        top == Take(scored_results, top_k)
        sent == SentToModel(pairs, e)
    IN  IF ~ld.model THEN Ok(Take(results, top_k), ld, <<>>, results)
        ELSE IF \E i \in 1..Len(pairs) : pairs[i].raised THEN Raise("KeyError", ld, <<>>, results)
        ELSE IF ~cs.comparable THEN Raise("TypeError", ld, sent, results)
        ELSE CHOOSE out \in {Ok(w.reranked, ld, sent, w.results) :
                                w \in {rerank_loop(results, top)}} : TRUE

\* A handler that lets a TypeError through.
except_catches_mut(exc) == exc # "TypeError"

\* `except Exception` of rerank_results (line 119)
except_catches(exc) == TRUE

\* A variant of the small-set test that only spares a single result.
small_set_mut(n) == n <= 1

\* Line 68: `if len(results) <= 3`
small_set(n) == n <= SmallSetSize

\* rerank_results(query, results, top_k)
rerank_results(results, top_k, m, l, e) ==
    LET same == [model |-> m, loaded |-> l, attempts |-> <<>>] IN
    IF Len(results) = 0 THEN Ok(<<>>, same, <<>>, results)
    ELSE IF Len(results) <= 1 THEN Ok(results, same, <<>>, results)
    ELSE IF small_set(Len(results)) THEN Ok(Take(results, top_k), same, <<>>, results)
    ELSE LET t == rerank_try(results, top_k, m, l, e) IN
         IF t.raised /\ except_catches(t.exc)
         THEN Ok(Take(t.input, top_k), t, t.scored, t.input)
         ELSE t

RrOp(name, n, shape, top_k, e, m0, l0, r) ==
    [op |-> name, n |-> n, shape |-> shape, top_k |-> top_k, env |-> e,
     modelBefore |-> m0, loadedBefore |-> l0,
     raised |-> r.raised, exc |-> r.exc, value |-> r.value, attempts |-> r.attempts,
     scored |-> r.scored, modelAfter |-> r.model, loadedAfter |-> r.loaded,
     input |-> r.input]

NoResult == [raised |-> FALSE, exc |-> "", value |-> <<>>, attempts |-> <<>>,
             scored |-> <<>>, model |-> FALSE, loaded |-> FALSE, input |-> <<>>]

RerankInit ==
    /\ model = FALSE
    /\ loaded = FALSE
    /\ started = FALSE
    /\ loadLog = <<>>
    /\ rrOp = RrOp("init", 0, "formatted", 0, NoRerankEnv, FALSE, FALSE, NoResult)

LogOf(who, attempts) == [i \in 1..Len(attempts) |-> [by |-> who, ok |-> attempts[i]]]

\* Application startup (app.py lifespan): the reranker is loaded after the
\* other models; when one of those fails to load, the reranker load is
\* skipped and the service starts all the same.
Lifespan ==
    /\ ~started
    /\ started' = TRUE
    /\ \E reached \in BOOLEAN, ok \in BOOLEAN :
        LET ld == IF reached THEN load_model(model, loaded, ok)
                  ELSE [model |-> model, loaded |-> loaded, attempts |-> <<>>]
        IN  /\ (~reached => ok)
            /\ model' = ld.model
            /\ loaded' = ld.loaded
            /\ loadLog' = loadLog \o LogOf("lifespan", ld.attempts)
            /\ rrOp' = RrOp("lifespan", 0, "formatted", 0,
                            [NoRerankEnv EXCEPT !.loadOk = ok], model, loaded,
                            [NoResult EXCEPT !.attempts = ld.attempts,
                                             !.model = ld.model, !.loaded = ld.loaded])
    /\ UNCHANGED <<gateVars, fanVars, pipe, sql, ocr>>

\* The model is consulted only by a call that gets past the small-set
\* checks; the outcome of a load is drawn only when a load is attempted.
RerankEnvsOf(n, l) ==
    IF n <= SmallSetSize THEN {NoRerankEnv}
    ELSE {e \in RerankEnvs : (l => e.loadOk) /\ (e.scoring # "ok" => e.pattern = "desc")}

\* The shapes tried for a list of n results: the long list only as
\* format_search_results produces it.
ShapesOf(n) == IF n <= MaxResults THEN Shapes ELSE {"formatted"}

\* A caller awaits rerank_service.rerank_results(query, results, top_k).
RerankCall ==
    /\ started
    /\ \E n \in ResultCounts : \E shape \in ShapesOf(n), top_k \in TopKs :
       \E e \in RerankEnvsOf(n, loaded) :
        \E r \in {rerank_results(Items(n, shape), top_k, model, loaded, e)} :
        /\ Len(loadLog) + Len(r.attempts) <= MaxLoads
        /\ model' = r.model
        /\ loaded' = r.loaded
        /\ loadLog' = loadLog \o LogOf("rerank", r.attempts)
        /\ rrOp' = RrOp("rerank", n, shape, top_k, e, model, loaded, r)
    /\ UNCHANGED <<started, gateVars, fanVars, pipe, sql, ocr>>



\* Some caller invokes db_service.check_hybrid_search_available().
CheckAvailable ==
    \E e \in EnvsOf(check_hybrid_search_available(
                        client, is_hybrid_search_available, NoEnv).queries, ProbeEnvs) :
        LET r == check_hybrid_search_available(client, is_hybrid_search_available, e) IN
        /\ client' = r.client
        /\ is_hybrid_search_available' = r.cache
        /\ lastOp' = Op("check", NoReq, e, client, is_hybrid_search_available,
                        0, r.ret, r.raised, r.queries, 0, 0)
        /\ UNCHANGED <<rerankVars, fanVars, pipe, sql, ocr>>

\* A request reaches POST /api/ml/search.
SearchRequest ==
    \E req \in Requests :
    \E e \in EnvsOf(search(req, client, is_hybrid_search_available, NoEnv).queries, ProbeEnvs) :
        LET r == search(req, client, is_hybrid_search_available, e) IN
        /\ client' = r.client
        /\ is_hybrid_search_available' = r.cache
        /\ lastOp' = Op("search", req, e, client, is_hybrid_search_available,
                        r.status, r.gate, FALSE, r.queries,
                        r.executorCalls, r.rerankCalls)
        /\ UNCHANGED <<rerankVars, fanVars, pipe, sql, ocr>>

\* Some caller invokes db_service.execute_query(...).
ExecuteQuery ==
    \E e \in QueryEnvs :
        LET r == execute_query(client, e) IN
        /\ client' = r.client
        /\ UNCHANGED is_hybrid_search_available
        /\ lastOp' = Op("execute_query", NoReq, e, client, is_hybrid_search_available,
                        0, "None", r.raised, r.queries, 0, 0)
        /\ UNCHANGED <<rerankVars, fanVars, pipe, sql, ocr>>

\* db_service.close()
Close ==
    /\ client' = FALSE
    /\ is_hybrid_search_available' = close_cache(is_hybrid_search_available)
    /\ lastOp' = Op("close", NoReq, NoEnv, client, is_hybrid_search_available,
                    0, "None", FALSE, <<>>, 0, 0)
    /\ UNCHANGED <<rerankVars, fanVars, pipe, sql, ocr>>

(***************************************************************************)
(* SearchService: search_table and search_all                              *)
(***************************************************************************)

max_workers == 4

SupportedTables == {"golden_answers", "messages", "knowledge_base_chunks"}

\* The table of the i-th config; `bad` is the place of a config naming an
\* unsupported table (0: there is none).
TableOf(i, bad) ==
    IF i = bad THEN "documents"
    ELSE IF i % 3 = 1 THEN "golden_answers"
    ELSE IF i % 3 = 2 THEN "messages"
    ELSE "knowledge_base_chunks"

\* A raw row of the store. scoreKind tells whether the row has the key
\* similarity_score at all ("absent"), has it with NULL ("null") or with a
\* number ("num", the number being `score`, in hundredths); contentLen is the
\* length of the content column, -1 for NULL; source_table is the tag that
\* search_all adds.
Row(id, kind, sc, len) ==
    [id |-> id, scoreKind |-> kind, score |-> sc, contentLen |-> len, source_table |-> ""]

\* What the store holds for the i-th source: i % 3 rows, nearest first.
StoreRows(i) ==
    [j \in 1..(i % 3) |-> Row(10 * i + j, "num", 10 * ((2 * i + 3 - j) % 4), 10 * j)]

\* The same rows, the first with a NULL similarity_score.
NullFirst(rows) ==
    [j \in 1..Len(rows) |-> IF j = 1 THEN [rows[j] EXCEPT !.scoreKind = "null", !.score = 0]
                             ELSE rows[j]]

\* A variant that sends a failed query a second time before giving up.
search_table_mut(table, i, c, how) ==
    IF table \notin SupportedTables
    THEN [exc |-> "ValueError", rows |-> <<>>, client |-> c, sent |-> 0]
    ELSE IF how = "query_fails"
    THEN [exc |-> "QueryError", rows |-> <<>>, client |-> TRUE, sent |-> 2]
    ELSE IF how = "ok_null"
    THEN [exc |-> "", rows |-> NullFirst(StoreRows(i)), client |-> TRUE, sent |-> 1]
    ELSE [exc |-> "", rows |-> StoreRows(i), client |-> TRUE, sent |-> 1]

\* search_table(): a config naming an unsupported table raises ValueError
\* before anything is sent to the store; otherwise the query goes through
\* execute_query, which connects if need be, and both steps may fail.
search_table(table, i, c, how) ==
    IF table \notin SupportedTables
    THEN [exc |-> "ValueError", rows |-> <<>>, client |-> c, sent |-> 0]
    ELSE IF ~c /\ how = "connect_fails"
    THEN [exc |-> "ConnectError", rows |-> <<>>, client |-> c, sent |-> 0]
    ELSE IF how = "query_fails"
    THEN [exc |-> "QueryError", rows |-> <<>>, client |-> TRUE, sent |-> 1]
    ELSE IF how = "ok_null"
    THEN [exc |-> "", rows |-> NullFirst(StoreRows(i)), client |-> TRUE, sent |-> 1]
    ELSE [exc |-> "", rows |-> StoreRows(i), client |-> TRUE, sent |-> 1]

\* The ways the store can answer one search_table call: with its rows, with
\* its rows of which the first has a NULL score, or with a failure.
Hows(table, c) ==
    IF table \notin SupportedTables THEN {"ok"}
    ELSE IF c THEN {"ok", "ok_null", "query_fails"}
    ELSE {"ok", "ok_null", "query_fails", "connect_fails"}

\* Lines 227-228: every row of a source is tagged with the config's table.
Tag(rows, table) == [j \in 1..Len(rows) |-> [rows[j] EXCEPT !.source_table = table]]

RECURSIVE Flatten(_)
Flatten(nested) == IF nested = <<>> THEN <<>> ELSE Head(nested) \o Flatten(Tail(nested))

\* A variant that reads a key the raw rows do not have: x.get('score', 0)
SortKey_mut(row) == 0

\* x.get('similarity_score', 0)
SortKey(row) == IF row.scoreKind = "absent" THEN 0 ELSE row.score

\* Lines 238-246: flatten in config order, then a stable sort by descending
\* similarity; comparing a NULL score with anything raises TypeError.
FlattenSort(nested) ==
    LET all_results == Flatten(nested)
        keyed == [j \in 1..Len(all_results) |->
                    [idx |-> j, score |-> SortKey(all_results[j])]]
        sorted == SortDesc(keyed)
    IN  IF Len(all_results) >= 2 /\ \E j \in 1..Len(all_results) : all_results[j].scoreKind = "null"
        THEN [raised |-> TRUE, rows |-> <<>>]
        ELSE [raised |-> FALSE, rows |-> [j \in 1..Len(sorted) |-> all_results[sorted[j].idx]]]

NoOutcome == [exc |-> "none", rows |-> <<>>]

Pending == [state |-> "pending", by |-> 0]

NoSaResult == [kind |-> "none", rows |-> <<>>, err |-> [src |-> 0, exc |-> ""]]

N == Len(cfgs)

Running == {i \in 1..N : tstate[i] = "running"}

\* A variant of the pool that starts a thread for every submitted call.
worker_free_mut(nrunning) == TRUE

\* ThreadPoolExecutor(max_workers=4): a queued call is taken only by a worker
\* that runs nothing else, and there are at most max_workers workers.
worker_free(nrunning) == nrunning < max_workers

\* search_all has not been called.
FanIdle ==
    /\ cfgs = <<>>
    /\ tstate = <<>>
    /\ outcome = <<>>
    /\ ready = <<>>
    /\ workQueue = <<>>
    /\ outer = Pending
    /\ pcS = "idle"
    /\ saResult = NoSaResult
    /\ sentQueries = <<>>
    /\ firstFailed = 0

\* A caller is about to await search_all(search_configs, embedding, limit):
\* any number of configs, all of supported tables or with an unsupported one
\* in first or in last place.
FanInit ==
    /\ \E n \in 1..MaxSources, bad \in 0..MaxSources :
        /\ bad \in {0, 1, n}
        /\ cfgs = [i \in 1..n |-> TableOf(i, bad)]
        /\ tstate = [i \in 1..n |-> "new"]
        /\ outcome = [i \in 1..n |-> NoOutcome]
        /\ sentQueries = [i \in 1..n |-> 0]
    /\ ready = <<>>
    /\ workQueue = <<>>
    /\ outer = Pending
    /\ pcS = "idle"
    /\ saResult = NoSaResult
    /\ firstFailed = 0

\* search_all runs up to `await asyncio.gather(...)`: gather wraps every
\* coroutine in a task, whose first step is queued on the loop.
SearchAllCall ==
    /\ pcS = "idle"
    /\ pcS' = "awaiting"
    /\ ready' = ready \o [i \in 1..N |-> [k |-> "step", i |-> i]]
    /\ UNCHANGED <<cfgs, tstate, outcome, workQueue, outer, saResult, sentQueries,
                   gateVars, rerankVars, pipe, sql, firstFailed, ocr>>

\* The loop is free to run callbacks unless search_all blocks its thread in
\* executor.shutdown(wait=True).
LoopFree == pcS # "shutdown" /\ ready # <<>>

\* First step of a task: search_table_async runs up to run_in_executor, which
\* submits the call to the pool.
TaskStep ==
    /\ LoopFree
    /\ Head(ready).k = "step"
    /\ LET i == Head(ready).i IN
        /\ tstate' = [tstate EXCEPT ![i] = "queued"]
        /\ workQueue' = Append(workQueue, i)
    /\ ready' = Tail(ready)
    /\ UNCHANGED <<cfgs, outcome, outer, pcS, saResult, sentQueries, gateVars, rerankVars, pipe, sql, firstFailed, ocr>>

\* A variant in which a later exception replaces the one the future holds.
gather_last_mut(o, exc, allDone) ==
    IF exc.failed THEN [state |-> "exception", by |-> exc.src]
    ELSE IF o.state # "pending" THEN o
    ELSE IF allDone THEN [state |-> "result", by |-> 0]
    ELSE o

\* A variant that collects exceptions like results (return_exceptions=True).
gather_done_mut(o, exc, allDone) ==
    IF o.state # "pending" THEN o
    ELSE IF allDone THEN [state |-> "result", by |-> 0]
    ELSE o

\* gather's callback for a finished child: the first exception settles the
\* outer future at once; the last child to finish settles it with the results.
gather_done(o, exc, allDone) ==
    IF o.state # "pending" THEN o
    ELSE IF exc.failed THEN [state |-> "exception", by |-> exc.src]
    ELSE IF allDone THEN [state |-> "result", by |-> 0]
    ELSE o

\* The completion of a pool call reaches the loop: the task resumes, tags
\* the rows or ends with the exception, and gather's callback runs.
TaskDone ==
    /\ LoopFree
    /\ Head(ready).k = "done"
    /\ LET i == Head(ready).i
           failed == outcome[i].exc # ""
           ts == [tstate EXCEPT ![i] = "done"]
           o == gather_done(outer, [failed |-> failed, src |-> i],
                            \A j \in 1..N : ts[j] = "done")
       IN  /\ tstate' = ts
           /\ outcome' = [outcome EXCEPT ![i].rows = Tag(outcome[i].rows, cfgs[i])]
           /\ outer' = o
           /\ ready' = IF o # outer THEN Append(Tail(ready), [k |-> "resume", i |-> 0])
                       ELSE Tail(ready)
    /\ UNCHANGED <<cfgs, workQueue, pcS, saResult, sentQueries, gateVars, rerankVars, pipe, sql, firstFailed, ocr>>

\* search_all resumes from the await, with the results or the exception, and
\* leaves the `with` block: executor.shutdown(wait=True).
Resume ==
    /\ LoopFree
    /\ Head(ready).k = "resume"
    /\ pcS = "awaiting"
    /\ pcS' = "shutdown"
    /\ ready' = Tail(ready)
    /\ UNCHANGED <<cfgs, tstate, outcome, workQueue, outer, saResult, sentQueries,
                   gateVars, rerankVars, pipe, sql, firstFailed, ocr>>

\* A worker thread takes the oldest queued call and starts search_table.
WorkerStart ==
    /\ workQueue # <<>>
    /\ worker_free(Cardinality(Running))
    /\ tstate' = [tstate EXCEPT ![Head(workQueue)] = "running"]
    /\ workQueue' = Tail(workQueue)
    /\ UNCHANGED <<cfgs, outcome, ready, outer, pcS, saResult, sentQueries, gateVars, rerankVars, pipe, sql, firstFailed, ocr>>

\* A search_table call returns or raises in its worker thread; the pool
\* hands the completion to the loop (call_soon_threadsafe).
WorkerFinish ==
    \E i \in Running :
    \E how \in Hows(cfgs[i], client) :
        LET r == search_table(cfgs[i], i, client, how) IN
        /\ tstate' = [tstate EXCEPT ![i] = "finished"]
        /\ outcome' = [outcome EXCEPT ![i] = [exc |-> r.exc, rows |-> r.rows]]
        /\ sentQueries' = [sentQueries EXCEPT ![i] = @ + r.sent]
        /\ client' = r.client
        /\ ready' = Append(ready, [k |-> "done", i |-> i])
        /\ firstFailed' = IF firstFailed = 0 /\ r.exc # "" THEN i ELSE firstFailed
        /\ UNCHANGED <<cfgs, workQueue, outer, pcS, saResult,
                       is_hybrid_search_available, lastOp, rerankVars, pipe, sql, ocr>>

\* A variant of the exit that also waits for the loop to have seen every
\* completion, while it keeps the loop's thread.
shutdown_joins_tasks_mut(queue, running) ==
    queue = <<>> /\ running = {} /\ \A i \in 1..N : tstate[i] = "done"

\* A variant of the pool's exit that does not wait: shutdown(wait=False).
shutdown_returns_mut(queue, running) == TRUE

\* The `with` block's exit is shutdown(wait=True), which cancels nothing and
\* returns when no submitted call is queued or running any more.
shutdown_returns(queue, running) == queue = <<>> /\ running = {}

\* shutdown(wait=True) returns once every submitted call has run; search_all
\* then raises gather's exception, or flattens and sorts the rows.
ShutdownDone ==
    /\ pcS = "shutdown"
    /\ shutdown_returns(workQueue, Running)
    /\ IF outer.state = "exception"
       THEN /\ pcS' = "raised"
            /\ saResult' = [kind |-> "error", rows |-> <<>>,
                            err |-> [src |-> outer.by, exc |-> outcome[outer.by].exc]]
       ELSE LET f == FlattenSort([i \in 1..N |-> outcome[i].rows]) IN
            IF f.raised
            THEN /\ pcS' = "raised"
                 /\ saResult' = [kind |-> "error", rows |-> <<>>,
                                 err |-> [src |-> 0, exc |-> "TypeError"]]
            ELSE /\ pcS' = "returned"
                 /\ saResult' = [kind |-> "list", rows |-> f.rows, err |-> [src |-> 0, exc |-> ""]]
    /\ UNCHANGED <<cfgs, tstate, outcome, ready, workQueue, outer, sentQueries,
                   gateVars, rerankVars, pipe, sql, firstFailed, ocr>>

(***************************************************************************)
(* Formatting, and the handler's stages after the fan-out                  *)
(***************************************************************************)

TypeOfTable(t) ==
    IF t = "golden_answers" THEN "golden_answer"
    ELSE IF t = "messages" THEN "message"
    ELSE "knowledge_base"

ExcerptLen == 200

Marker == <<".", ".", ".">>

\* The content column of a row as its characters; NULL (len < 0) has none.
Content(len) ==
    [i \in 1..len |-> <<"a", "b", "c", "d", "e", "f", "g">>[(i % 7) + 1]]

\* A variant that always cuts and marks.
Excerpt_mut(len) == Take(Content(len), ExcerptLen) \o Marker

\* content = result['content'] or ''
\* excerpt = content[:200] + '...' if len(content) > 200 else content
Excerpt(len) ==
    LET content == IF len < 0 THEN <<>> ELSE Content(len) IN
    IF Len(content) > ExcerptLen THEN Take(content, ExcerptLen) \o Marker ELSE content

\* The dict format_search_results builds for one row.
Formatted(row) ==
    [id |-> row.id, type |-> TypeOfTable(row.source_table), score |-> row.score,
     hasContent |-> row.source_table # "messages",
     hasExcerpt |-> row.source_table # "golden_answers",
     excerpt |-> IF row.source_table # "golden_answers" THEN Excerpt(row.contentLen) ELSE <<>>,
     rerank_score |-> NoScore]

\* A row is formatted when it has the key similarity_score and its table is
\* one of the three the function knows; other rows are left out.
format_keeps(row) == row.scoreKind # "absent" /\ row.source_table \in SupportedTables

\* format_search_results(results): float(None) raises TypeError.
format_search_results(v) ==
    IF format_iter_raises(v) THEN [raised |-> TRUE, exc |-> "TypeError", items |-> <<>>]
    ELSE LET kept == SelectSeq(v.rows, format_keeps) IN
         IF \E j \in 1..Len(kept) : kept[j].scoreKind = "null"
         THEN [raised |-> TRUE, exc |-> "TypeError", items |-> <<>>]
         ELSE [raised |-> FALSE, exc |-> "",
               items |-> [j \in 1..Len(kept) |-> Formatted(kept[j])]]

\* SearchResultItem(**result): the response model has no rerank_score field,
\* so the key is left out of the item.
SearchResultItem(r) == [r EXCEPT !.rerank_score = NoScore]

\* Lines 85-99 of the handler: rerank when asked and there is something to
\* rerank, else the first `limit` formatted results.
final_stage(formatted, req, m, l, e) ==
    IF req.rerank /\ formatted # <<>>
    THEN rerank_results(formatted, req.limit, m, l, e)
    ELSE Ok(Take(formatted, req.limit), [model |-> m, loaded |-> l, attempts |-> <<>>], <<>>,
            formatted)

\* The similarity scores a row of the store can come with.
RowKinds == {<<"absent", 0>>, <<"null", 0>>, <<"num", 0 - 10>>, <<"num", 10>>}

RECURSIVE KindSeqs(_)
KindSeqs(n) ==
    IF n = 0 THEN {<<>>}
    ELSE LET shorter == KindSeqs(n - 1)
         IN  shorter \cup {Append(q, k) : q \in {t \in shorter : Len(t) = n - 1}, k \in RowKinds}

\* A source returns its rows nearest first: the numeric similarity scores do
\* not increase along the list.
NearestFirst(q) ==
    \A a, b \in 1..Len(q) : (a < b /\ q[a][1] = "num" /\ q[b][1] = "num") => q[a][2] >= q[b][2]

SourceAnswers == {q \in KindSeqs(MaxRows) : NearestFirst(q)}

\* The rows of source i, tagged as search_all tags them.
RowsOf(i, q) ==
    Tag([j \in 1..Len(q) |-> Row(10 * i + j, q[j][1], q[j][2], 10 * j)], TableOf(i, 0))

\* The limit and rerank flag of a request that passed the handler's
\* validation, which does not look at the limit.
PipeRequests == [limit : {0 - 1, 0, 2, 25}, rerank : BOOLEAN]

PipeIdle ==
    pipe = [pc |-> "idle", nested |-> <<>>, req |-> [limit |-> 2, rerank |-> FALSE],
            fused |-> <<>>, formatted |-> <<>>, reranked |-> <<>>, final |-> <<>>,
            total_results |-> 0,
            env |-> NoRerankEnv, exc |-> ""]

\* All sources of a request have answered: two sources, each with up to
\* MaxRows rows.
PipeInit ==
    \E q1 \in SourceAnswers, q2 \in SourceAnswers :
        pipe = [pc |-> "gathered", nested |-> <<RowsOf(1, q1), RowsOf(2, q2)>>,
                req |-> [limit |-> 2, rerank |-> FALSE],
                fused |-> <<>>, formatted |-> <<>>, reranked |-> <<>>, final |-> <<>>,
            total_results |-> 0,
                env |-> NoRerankEnv, exc |-> ""]

\* The content lengths around the excerpt limit, NULL (-1) and short ones.
ContentLens == {0 - 1} \cup 0..3 \cup (ExcerptLen - 2)..(ExcerptLen + MaxOver)

\* One source has answered with one row, of any table and content length.
ExcerptInit ==
    \E i \in 1..3, len \in ContentLens :
        pipe = [pc |-> "gathered",
                nested |-> <<Tag(<<Row(10 * i + 1, "num", 10, len)>>, TableOf(i, 0))>>,
                req |-> [limit |-> 2, rerank |-> FALSE],
                fused |-> <<>>, formatted |-> <<>>, reranked |-> <<>>, final |-> <<>>,
            total_results |-> 0,
                env |-> NoRerankEnv, exc |-> ""]

\* search_all, lines 238-246
Fuse ==
    /\ pipe.pc = "gathered"
    /\ started
    /\ LET f == FlattenSort(pipe.nested) IN
        pipe' = IF f.raised THEN [pipe EXCEPT !.pc = "failed", !.exc = "TypeError"]
                ELSE [pipe EXCEPT !.pc = "fused", !.fused = f.rows]
    /\ UNCHANGED <<gateVars, rerankVars, fanVars, sql, ocr>>

\* format_search_results on the awaited rows
Format ==
    /\ pipe.pc = "fused"
    /\ LET f == format_search_results([kind |-> "list", rows |-> pipe.fused]) IN
        pipe' = IF f.raised THEN [pipe EXCEPT !.pc = "failed", !.exc = f.exc]
                ELSE [pipe EXCEPT !.pc = "formatted", !.formatted = f.items]
    /\ UNCHANGED <<gateVars, rerankVars, fanVars, sql, ocr>>

\* The handler's last stage, the response items and total_results =
\* len(final_results); the request's limit and rerank flag are read here for
\* the first time.
Finalize ==
    /\ pipe.pc = "formatted"
    /\ \E req \in PipeRequests :
       \E e \in RerankEnvsOf(IF req.rerank THEN Len(pipe.formatted) ELSE 0, loaded) :
        \E r \in {final_stage(pipe.formatted, req, model, loaded, e)} :
        /\ Len(loadLog) + Len(r.attempts) <= MaxLoads
        /\ model' = r.model
        /\ loaded' = r.loaded
        /\ loadLog' = loadLog \o LogOf("rerank", r.attempts)
        /\ pipe' = IF r.raised
                   THEN [pipe EXCEPT !.pc = "failed", !.exc = r.exc, !.env = e, !.req = req]
                   ELSE [pipe EXCEPT !.pc = "final", !.env = e, !.req = req,
                                     !.reranked = r.value,
                                     !.final = [j \in 1..Len(r.value) |->
                                                   SearchResultItem(r.value[j])],
                                     !.total_results = Len(r.value)]
    /\ UNCHANGED <<started, rrOp, gateVars, fanVars, sql, ocr>>

(***************************************************************************)
(* The text of a query: search_table builds it, execute_query fills it in  *)
(***************************************************************************)

\* Strings are sequences of characters, the two-character placeholder %s
\* counting as one; "dq" is the double quote.
StrVal(chars) == [kind |-> "str", chars |-> chars]

IntVal(digits) == [kind |-> "int", chars |-> digits]

\* json.dumps(embedding)
embedding_json == StrVal(<<"[", "0", "]">>)

\* The filter values a caller can send.
FilterValues ==
    {StrVal(<<"a">>), StrVal(<<"a", "'">>), StrVal(<<"%s">>),
     StrVal(<<"[", "a", "]">>), StrVal(<<"[", "'", "]">>), IntVal(<<"7">>)}

\* The columns a caller can filter on.
FilterKeys == {"tenant_id", "knowledge_bases.tenant_id", "k2"}

\* A filters dict, as its items in insertion order.
RECURSIVE FilterSeqs(_)
FilterSeqs(n) ==
    IF n = 0 THEN {<<>>}
    ELSE LET shorter == FilterSeqs(n - 1)
         IN  shorter \cup
             {Append(q, [key |-> k, value |-> v]) :
                 q \in {t \in shorter : Len(t) = n - 1},
                 k \in FilterKeys, v \in FilterValues}

\* The keys of a dict are distinct.
IsDict(q) == \A a, b \in 1..Len(q) : a # b => q[a].key # q[b].key

\* `key in filters`
HasKey(filters, key) == \E k \in 1..Len(filters) : filters[k].key = key

\* filters[key]
ValueAt(filters, key) == (CHOOSE f \in {filters[k] : k \in 1..Len(filters)} : f.key = key).value

\* What filters.pop(key) leaves in the dict.
Pop(filters, key) == SelectSeq(filters, LAMBDA f : f.key # key)

\* list(filters.values())
Values(filters) == [k \in 1..Len(filters) |-> filters[k].value]

\* search.py:44-49: one `key = %s` clause per filter, with the ga. prefix for
\* tenant_id on golden_answers.
Clause(table, key) ==
    IF table = "golden_answers" /\ key = "tenant_id"
    THEN <<"ga.tenant_id", "=", "%s">>
    ELSE <<key, "=", "%s">>

\* The clause of a filter on messages (m.) or knowledge_base_chunks (kb. for
\* a column of knowledge_bases, else kbc.).
JoinedClause(table, key) ==
    IF table = "messages" THEN <<"m.", key, "=", "%s">>
    ELSE IF key = "knowledge_bases.tenant_id" THEN <<"kb.", "tenant_id", "=", "%s">>
    ELSE <<"kbc.", key, "=", "%s">>

RECURSIVE JoinAnd(_)
JoinAnd(clauses) ==
    IF clauses = <<>> THEN <<>>
    ELSE IF Len(clauses) = 1 THEN clauses[1]
    ELSE clauses[1] \o <<"AND">> \o JoinAnd(Tail(clauses))

\* The tenant column a joined table is filtered by, and its clause.
TenantKey(table) == IF table = "messages" THEN "tenant_id" ELSE "knowledge_bases.tenant_id"

TenantFilter(table) ==
    IF table = "messages" THEN <<"c.tenant_id", "=", "%s">> ELSE <<"kb.tenant_id", "=", "%s">>

\* tenant_id = filters.pop(...): the caller's dict loses the key.
PopTenant(table, filters) == Pop(filters, TenantKey(table))

\* The WHERE clause and the filter parameters (search.py:39-51, 77-95,
\* 118-145), and the filters dict as the call leaves it.
WhereOf(table, filters) ==
    IF table = "golden_answers"
    THEN LET where_clauses == [k \in 1..Len(filters) |-> Clause(table, filters[k].key)]
         IN  [where_clause |-> IF where_clauses # <<>> THEN JoinAnd(where_clauses) ELSE <<"1=1">>,
              params |-> Values(filters), filters |-> filters]
    ELSE IF HasKey(filters, TenantKey(table))
    THEN LET tenant_id == ValueAt(filters, TenantKey(table))
             left == PopTenant(table, filters)
             other_filters == [k \in 1..Len(left) |-> JoinedClause(table, left[k].key)]
         IN  [where_clause |-> IF other_filters # <<>>
                               THEN TenantFilter(table) \o <<"AND">> \o JoinAnd(other_filters)
                               ELSE TenantFilter(table),
              params |-> <<tenant_id>> \o Values(left), filters |-> left]
    ELSE LET where_clauses == [k \in 1..Len(filters) |-> JoinedClause(table, filters[k].key)]
         IN  [where_clause |-> IF where_clauses # <<>> THEN JoinAnd(where_clauses) ELSE <<"1=1">>,
              params |-> Values(filters), filters |-> filters]

\* search_table up to the execute_query call: the query text with its
\* placeholders, the parameters in placeholder order, and the filters dict.
BuildQuery(table, filters, limit) ==
    LET w == WhereOf(table, filters)
    IN  [query |-> <<"SELECT", "DISTANCE", "%s", "SIMILARITY", "%s", "FROM", table, "WHERE">>
                    \o w.where_clause \o <<"LIMIT", "%s">>,
         params |-> <<embedding_json, embedding_json>> \o w.params \o <<limit>>,
         filters |-> w.filters]

\* repr(param): digits for an int; for a str the text between single quotes,
\* or between double quotes when it holds a single quote.
Repr(p) ==
    IF p.kind = "int" THEN p.chars
    ELSE IF \E k \in 1..Len(p.chars) : p.chars[k] = "'"
    THEN <<"dq">> \o p.chars \o <<"dq">>
    ELSE <<"'">> \o p.chars \o <<"'">>

\* isinstance(param, str) and param.startswith('[') and param.endswith(']')
IsVectorLike(p) ==
    /\ p.kind = "str"
    /\ p.chars # <<>>
    /\ p.chars[1] = "["
    /\ p.chars[Len(p.chars)] = "]"

\* The text put in place of a placeholder (database.py:151-158).
Rendered(p) == IF IsVectorLike(p) THEN <<"'">> \o p.chars \o <<"'">> ELSE Repr(p)

\* Where the first %s of the text is; 0 when there is none.
FirstPlaceholder(text) ==
    IF \E k \in 1..Len(text) : text[k].ch = "%s"
    THEN CHOOSE k \in 1..Len(text) :
            /\ text[k].ch = "%s"
            /\ \A j \in 1..(k - 1) : text[j].ch # "%s"
    ELSE 0

\* formatted_query.replace('%s', r, 1). Every character of the text carries
\* the number of the parameter it came in with (0: the query as built).
ReplaceFirst(text, r, i) ==
    LET k == FirstPlaceholder(text) IN
    IF k = 0 THEN text
    ELSE SubSeq(text, 1, k - 1) \o [j \in 1..Len(r) |-> [ch |-> r[j], of |-> i]]
            \o SubSeq(text, k + 1, Len(text))

\* The loop of execute_query over params, from the i-th on; `hits` records
\* for each parameter whose text the placeholder it replaced belonged to
\* (-1: no placeholder was left).
RECURSIVE BindFrom(_, _, _, _)
BindFrom(text, params, i, hits) ==
    IF i > Len(params) THEN [text |-> text, hits |-> hits]
    ELSE LET k == FirstPlaceholder(text)
             hit == IF k = 0 THEN 0 - 1 ELSE text[k].of
         IN  BindFrom(ReplaceFirst(text, Rendered(params[i]), i), params, i + 1,
                      Append(hits, hit))

\* formatted_query of execute_query(query, params)
formatted_query(query, params) ==
    BindFrom([j \in 1..Len(query) |-> [ch |-> query[j], of |-> 0]], params, 1, <<>>)

SqlIdle ==
    sql = [pc |-> "idle", table |-> "", given |-> <<>>, filters |-> <<>>,
           query |-> <<>>, params |-> <<>>, text |-> <<>>, hits |-> <<>>]

\* A caller is about to run search_table for one config: `given` is the
\* filters dict as supplied, `filters` the dict object itself.
SqlInit ==
    \E table \in SupportedTables, filters \in {q \in FilterSeqs(MaxFilters) : IsDict(q)} :
        sql = [pc |-> "called", table |-> table, given |-> filters, filters |-> filters,
               query |-> <<>>, params |-> <<>>, text |-> <<>>, hits |-> <<>>]

\* search_table, lines 37-169
SearchTableBuild ==
    /\ sql.pc = "called"
    /\ LET b == BuildQuery(sql.table, sql.filters, IntVal(<<"7">>)) IN
        sql' = [sql EXCEPT !.pc = "built", !.query = b.query, !.params = b.params,
                           !.filters = b.filters]
    /\ UNCHANGED <<gateVars, rerankVars, fanVars, pipe, ocr>>

\* execute_query, lines 145-159
ExecuteQueryFormat ==
    /\ sql.pc = "built"
    /\ LET f == formatted_query(sql.query, sql.params) IN
        sql' = [sql EXCEPT !.pc = "sent", !.text = f.text, !.hits = f.hits]
    /\ UNCHANGED <<gateVars, rerankVars, fanVars, pipe, ocr>>

(***************************************************************************)
(* OpenRouterOCRModel: extract_text_with_retry                             *)
(***************************************************************************)

\* Models are numbered; a list of models is a sequence of distinct numbers.
ModelIds == 1..MaxModels

ModelLists ==
    {l \in UNION {[1..k -> ModelIds] : k \in 0..MaxModels} :
        \A a, b \in DOMAIN l : a # b => l[a] # l[b]}

\* Line 33: the waits in seconds, one per round
retry_delays == <<1, 2, 4, 8, 16, 32>>

\* The known free vision models that load() starts with and refresh_models
\* falls back to (lines 115-119, 139-143).
FallbackModels == <<1, 2, 3>>

\* How a call of _call_openrouter and the reading of its response can end:
\* with a result, with the RATE_LIMIT exception, with another API error, or
\* with a response whose reading raises (no choice in it, a null content).
CallEnds == {"ok", "RATE_LIMIT", "api_error", "bad_response"}

NoOcrResult == [attempts |-> 0, model_used |-> 0]

OcrIdle ==
    ocr = [available_models |-> <<>>, pc |-> "idle", models_to_try |-> <<>>,
           delay_index |-> 0, model_index |-> 0, attempt_count |-> 0,
           calls |-> <<>>, slept |-> <<>>, last_error |-> "None",
           result |-> NoOcrResult, error |-> ""]

\* A variant that waits after every round, the last one too.
waits_after_round_mut(delay_index) == TRUE

\* Line 372: `if delay_index < len(self.retry_delays) - 1` (indices from 1 here)
waits_after_round(delay_index) == delay_index < Len(retry_delays)

\* What refresh_models leaves in available_models (lines 86-132): the models
\* found, the fallback list when none is found, the list as it was when the
\* fetch fails.
refreshed(available_models, fetch_ok, new_models) ==
    IF ~fetch_ok THEN available_models
    ELSE IF new_models = <<>> THEN FallbackModels
    ELSE new_models

\* load(): the fallback list, then a refresh.
OcrLoad ==
    /\ \E fetch_ok \in BOOLEAN, new_models \in ModelLists :
        /\ (~fetch_ok => new_models = <<>>)
        /\ ocr' = [ocr EXCEPT !.available_models =
                        refreshed(FallbackModels, fetch_ok, new_models)]
    /\ UNCHANGED <<gateVars, rerankVars, fanVars, pipe, sql>>

\* refresh_models(), also at an await of a call in flight.
RefreshModels ==
    /\ \E fetch_ok \in BOOLEAN, new_models \in ModelLists :
        /\ (~fetch_ok => new_models = <<>>)
        /\ ocr' = [ocr EXCEPT !.available_models = refreshed(@, fetch_ok, new_models)]
    /\ UNCHANGED <<gateVars, rerankVars, fanVars, pipe, sql>>

\* Lines 302-314: the call up to its first attempt. The image is encoded as
\* JPEG, else as PNG; when both fail the exception of the second leaves the
\* call.
ExtractStart ==
    /\ ocr.pc \in {"idle", "returned", "raised"}
    /\ \E encodes \in BOOLEAN :
        LET fresh == [ocr EXCEPT !.models_to_try = <<>>, !.delay_index = 0,
                                 !.model_index = 0, !.attempt_count = 0,
                                 !.calls = <<>>, !.slept = <<>>, !.last_error = "None",
                                 !.result = NoOcrResult, !.error = ""]
        IN  ocr' = IF ocr.available_models = <<>>
                   THEN [fresh EXCEPT !.pc = "raised", !.error = "No vision models available"]
                   ELSE IF ~encodes
                   THEN [fresh EXCEPT !.pc = "raised", !.error = "encode"]
                   ELSE [fresh EXCEPT !.pc = "call",
                                      !.models_to_try = ocr.available_models,
                                      !.delay_index = 1, !.model_index = 1]
    /\ UNCHANGED <<gateVars, rerankVars, fanVars, pipe, sql>>

\* Where the loops stand after the round of delay_index has ended and its
\* wait, if any, is over: the next round, or the raise of line 377.
AfterRound(o) ==
    IF o.delay_index < Len(retry_delays)
    THEN [o EXCEPT !.pc = "call", !.delay_index = @ + 1, !.model_index = 1]
    ELSE [o EXCEPT !.pc = "raised", !.error = "OCR failed"]

\* Lines 317-369: one attempt, from `attempt_count += 1` to its return or to
\* the `continue` of its except clause.
Attempt ==
    /\ ocr.pc = "call"
    /\ \E ends \in CallEnds :
        LET model_id == ocr.models_to_try[ocr.model_index]
            o == [ocr EXCEPT !.attempt_count = @ + 1,
                             !.calls = Append(@, [model |-> model_id, ok |-> ends = "ok"])]
            failed == [o EXCEPT !.last_error = ends]
        IN  ocr' = IF ends = "ok"
                   THEN [o EXCEPT !.pc = "returned",
                                  !.result = [attempts |-> o.attempt_count,
                                              model_used |-> model_id]]
                   ELSE IF ocr.model_index < Len(ocr.models_to_try)
                   THEN [failed EXCEPT !.model_index = @ + 1]
                   ELSE IF waits_after_round(ocr.delay_index)
                   THEN [failed EXCEPT !.pc = "sleep"]
                   ELSE AfterRound(failed)
    /\ UNCHANGED <<gateVars, rerankVars, fanVars, pipe, sql>>

\* Line 374: `await asyncio.sleep(delay)` is over.
SleepDone ==
    /\ ocr.pc = "sleep"
    /\ ocr' = AfterRound([ocr EXCEPT !.slept =
                    Append(@, [delay |-> retry_delays[ocr.delay_index],
                               after |-> ocr.attempt_count])])
    /\ UNCHANGED <<gateVars, rerankVars, fanVars, pipe, sql>>

(***************************************************************************)
(* Specifications                                                          *)
(***************************************************************************)

Init ==
    /\ GateInit
    /\ RerankInit
    /\ FanIdle
    /\ PipeIdle
    /\ SqlIdle
    /\ OcrIdle

\* The availability gate, the store and the search endpoint.
Next == CheckAvailable \/ SearchRequest \/ ExecuteQuery \/ Close

Spec == Init /\ [][Next]_vars

\* The rerank service: startup and rerank_results calls.
RerankNext == Lifespan \/ RerankCall

SpecRerank == Init /\ [][RerankNext]_vars

\* One awaited search_all call: the loop, the pool's workers and the store.
\* The gate has passed: the probe has connected and cached True.
GatePassed ==
    /\ client = TRUE
    /\ is_hybrid_search_available = "True"
    /\ lastOp = Op("check", NoReq, NoEnv, FALSE, "None", 0, "True", FALSE,
                   ProbeBody(FALSE, NoEnv).queries, 0, 0)

FanOutInit ==
    /\ GatePassed
    /\ RerankInit
    /\ FanInit
    /\ PipeIdle
    /\ SqlIdle
    /\ OcrIdle

FanOutNext ==
    \/ SearchAllCall
    \/ TaskStep
    \/ TaskDone
    \/ Resume
    \/ WorkerStart
    \/ WorkerFinish
    \/ ShutdownDone

SpecFanOut == FanOutInit /\ [][FanOutNext]_vars

\* The same with the progress the runtime gives: the caller's await runs
\* search_all, the loop runs its queued callbacks in turn, a worker with
\* nothing to do takes the oldest queued call, shutdown returns when its wait
\* is over, and (the claim's premise) every search_table call ends.
FanOutFairness ==
    /\ WF_vars(SearchAllCall)
    /\ WF_vars(TaskStep)
    /\ WF_vars(TaskDone)
    /\ WF_vars(Resume)
    /\ WF_vars(WorkerStart)
    /\ WF_vars(WorkerFinish)
    /\ WF_vars(ShutdownDone)

SpecFanOutLive == FanOutInit /\ [][FanOutNext]_vars /\ FanOutFairness

\* The stages after the fan-out, on the rows the sources returned.
PipelineInit ==
    /\ GatePassed
    /\ RerankInit
    /\ FanIdle
    /\ PipeInit
    /\ SqlIdle
    /\ OcrIdle

PipelineNext == Lifespan \/ Fuse \/ Format \/ Finalize

SpecPipeline == PipelineInit /\ [][PipelineNext]_vars

\* Formatting of single rows of every content length around the limit.
ExcerptSpecInit ==
    /\ GatePassed
    /\ RerankInit
    /\ FanIdle
    /\ ExcerptInit
    /\ SqlIdle
    /\ OcrIdle

ExcerptNext == Lifespan \/ Fuse \/ Format

SpecExcerpt == ExcerptSpecInit /\ [][ExcerptNext]_vars

\* One search_table call's query, from its filters to the text sent.
BindInit ==
    /\ GatePassed
    /\ RerankInit
    /\ FanIdle
    /\ PipeIdle
    /\ SqlInit
    /\ OcrIdle

BindNext == SearchTableBuild \/ ExecuteQueryFormat

SpecBind == BindInit /\ [][BindNext]_vars

\* The OCR model: its model list and extract_text_with_retry calls, one at
\* a time.
OcrNext == OcrLoad \/ RefreshModels \/ ExtractStart \/ Attempt \/ SleepDone

SpecOcr == Init /\ [][OcrNext]_vars

(***************************************************************************)
(* Properties of the availability gate and the endpoint (under Spec)       *)
(***************************************************************************)

\* lastOp is an operation in which check_hybrid_search_available was called
\* (directly or by the search handler) and returned a value.
GateConsulted ==
    \/ lastOp.op = "check"
    \/ lastOp.op = "search" /\ lastOp.ret # "None"

\* C2: whenever the availability check returns false at request time, the
\* search request ends as 503 "service unavailable", and the handler has
\* called no source executor, issued no source query and called no reranker.
C2_GateShortCircuit ==
    (lastOp.op = "search" /\ lastOp.ret = "False")
        => /\ lastOp.status = 503
           /\ lastOp.executorCalls = 0
           /\ lastOp.rerankCalls = 0
           /\ \A i \in 1..Len(lastOp.queries) : lastOp.queries[i] # "QUERY"

\* A request with a valid body met a store whose probe failed at request time.
C2_Witness ==
    /\ lastOp.op = "search"
    /\ lastOp.ret = "False"
    /\ lastOp.cacheBefore = "None"
    /\ lastOp.queries # <<>>
    /\ lastOp.status = 503

\* C3: once a value is cached, no operation changes or clears it, and every
\* later availability check returns it without issuing a query to the store.
C3_CacheStable ==
    [][is_hybrid_search_available # "None"
         => /\ is_hybrid_search_available' = is_hybrid_search_available
            /\ (lastOp'.op = "check" \/ (lastOp'.op = "search" /\ lastOp'.ret # "None"))
                 => /\ lastOp'.ret = is_hybrid_search_available
                    /\ lastOp'.queries = <<>>]_vars

\* A check made while "False" was cached returned False without a query, and
\* a close() happened while a value was cached.
C3_Witness ==
    /\ lastOp.op = "check"
    /\ lastOp.cacheBefore = "False"
    /\ lastOp.ret = "False"
    /\ lastOp.queries = <<>>
    /\ ~lastOp.clientBefore

\* The vector forms among the queries of a probe, in the order issued.
VecQueries(qs) == SelectSeq(qs, LAMBDA q : q \in {"VEC1", "VEC2", "VEC3"})

\* C4: the first check returns true exactly when the connection and the
\* connectivity check succeed and at least one of the three forms of the
\* similarity call succeeds; the forms are tried in order, a later one only
\* after the earlier ones failed; the call never raises; the outcome of the
\* version query plays no part.
C4_ProbeOutcome ==
    (GateConsulted /\ lastOp.cacheBefore = "None")
        => LET e == lastOp.env
               connected == lastOp.clientBefore \/ e.connectOk
               v == VecQueries(lastOp.queries)
           IN  /\ ~lastOp.raised
               /\ lastOp.ret \in {"True", "False"}
               /\ (lastOp.ret = "True")
                    <=> (connected /\ e.basicOk /\ (e.f1 \/ e.f2 \/ e.f3))
               /\ v = SubSeq(<<"VEC1", "VEC2", "VEC3">>, 1, Len(v))
               /\ (Len(v) >= 2 => ~e.f1)
               /\ (Len(v) >= 3 => ~e.f1 /\ ~e.f2)
               /\ is_hybrid_search_available = lastOp.ret

\* A first check in which the version query and the first two forms failed
\* and the third form succeeded.
C4_Witness ==
    /\ lastOp.op = "check"
    /\ lastOp.cacheBefore = "None"
    /\ ~lastOp.env.versionOk /\ ~lastOp.env.f1 /\ ~lastOp.env.f2 /\ lastOp.env.f3
    /\ lastOp.ret = "True"
    /\ Len(lastOp.queries) = 5

\* The request bodies the specification calls invalid.
InvalidRequest(req) ==
    \/ Strip(req.query) = <<>>
    \/ req.embeddingLen = 0
    \/ req.nconfigs = 0
    \/ req.limit <= 0

\* C15: a request with an empty or blank query, an empty embedding, no
\* source or a limit not above 0 ends as 400, without the availability
\* check having been called and without a query to the store.
C15_ValidationFirst ==
    (lastOp.op = "search" /\ InvalidRequest(lastOp.req))
        => /\ lastOp.status = 400
           /\ lastOp.ret = "None"
           /\ lastOp.queries = <<>>
           /\ lastOp.executorCalls = 0

\* C21: a valid request with rerank = true that finds the gate available
\* gets a success response (whose results carry the reranker's scores).
C21_EndToEndRerank ==
    (lastOp.op = "search" /\ ~InvalidRequest(lastOp.req) /\ lastOp.req.rerank
        /\ lastOp.ret = "True")
        => lastOp.status = 200

(***************************************************************************)
(* Properties of the rerank service (under SpecRerank)                     *)
(***************************************************************************)

C7_LoadOutcomeCached ==
    \A i, j \in 1..Len(loadLog) :
        i < j => /\ ~loadLog[i].ok
                 /\ loadLog[j].by # "rerank"

\* C9: a rerank_results call with more than 3 results returns a list of the
\* given results and raises nothing, whatever fails on the way.
C9_RerankNeverRaises ==
    (rrOp.op = "rerank" /\ rrOp.n > SmallSetSize)
        => /\ ~rrOp.raised
           /\ Len(rrOp.value) <= rrOp.n
           /\ \A j \in 1..Len(rrOp.value) : rrOp.value[j].id \in 1..rrOp.n

\* A call whose scores could not be sorted, and one whose pair construction
\* hit a missing key, both ended with the list in fused order.
C9_Witness ==
    /\ rrOp.op = "rerank"
    /\ rrOp.n > SmallSetSize
    /\ rrOp.modelBefore
    /\ rrOp.env.scoring = "unsortable"
    /\ rrOp.shape = "formatted"
    /\ rrOp.top_k = 2
    /\ ~rrOp.raised
    /\ Len(rrOp.value) = 2

\* The model was not available to the call: it was not loaded before and the
\* load the call made failed.
LoadFailed == ~rrOp.modelBefore /\ ~rrOp.env.loadOk

\* The batch score computation raised.
ScoringFailed == rrOp.env.scoring \in {"raise_first", "raise_last"}

\* C10: when model loading or scoring fails, the returned list is the input
\* in fused order truncated to top_k and no returned item has a rerank_score.
C10_FallbackResult ==
    (rrOp.op = "rerank" /\ rrOp.n > SmallSetSize /\ (LoadFailed \/ ScoringFailed))
        => /\ rrOp.value = Take(Items(rrOp.n, rrOp.shape), rrOp.top_k)
           /\ \A j \in 1..Len(rrOp.value) : ~rrOp.value[j].rerank_score.set

\* C11: a rerank_results call with at most 3 results and a top_k above 0
\* returns the first top_k of them (all, when there are no more), unchanged
\* and in the given order, none with a rerank_score, and neither attempts to
\* load the model nor hands it a pair.
C11_SmallSetNoOp ==
    (rrOp.op = "rerank" /\ rrOp.n <= SmallSetSize /\ rrOp.top_k > 0)
        => LET given == Items(rrOp.n, rrOp.shape)
               k == IF rrOp.top_k < rrOp.n THEN rrOp.top_k ELSE rrOp.n
           IN  /\ ~rrOp.raised
               /\ Len(rrOp.value) = k
               /\ \A j \in 1..k : rrOp.value[j] = given[j]
               /\ \A j \in 1..k : ~rrOp.value[j].rerank_score.set
               /\ rrOp.attempts = <<>>
               /\ rrOp.scored = <<>>
               /\ rrOp.modelAfter = rrOp.modelBefore
               /\ rrOp.loadedAfter = rrOp.loadedBefore

\* Three results and top_k = 2 on a service whose model is not loaded: the
\* first two came back and the model is still not loaded.
C11_Witness ==
    /\ rrOp.op = "rerank"
    /\ rrOp.n = 3
    /\ rrOp.top_k = 2
    /\ ~rrOp.loadedBefore
    /\ Len(rrOp.value) = 2
    /\ rrOp.value[2].id = 2
    /\ ~loaded

\* The call had a model (loaded before, or loaded by the call), every result
\* had the key its pair is built from, and the model scored every pair.
ScoringSucceeded ==
    /\ rrOp.modelBefore \/ rrOp.env.loadOk
    /\ rrOp.shape = "formatted"
    /\ rrOp.env.scoring = "ok"

C24_TopTwentyCap ==
    rrOp.op = "rerank"
        => /\ Len(rrOp.scored) <= 20
           /\ \A k \in 1..Len(rrOp.scored) : rrOp.scored[k].doc \in 1..20
           /\ (rrOp.n > SmallSetSize /\ ScoringSucceeded)
                => /\ \A j \in 1..Len(rrOp.value) : rrOp.value[j].id \in 1..20
                   /\ \A i, j \in 1..Len(rrOp.value) :
                        i # j => rrOp.value[i].id # rrOp.value[j].id

\* 22 results, of which the model would have scored the last ones highest,
\* and top_k = 25: the 20 first results came back, the 20th first.
C24_Witness ==
    /\ rrOp.op = "rerank"
    /\ rrOp.n = 22
    /\ rrOp.top_k = 25
    /\ ScoringSucceeded
    /\ rrOp.env.pattern = "asc"
    /\ Len(rrOp.scored) = 20
    /\ Len(rrOp.value) = 20
    /\ rrOp.value[1].id = 20

\* C25: the text of every pair handed to the model is the result's content
\* when the result has one, and its excerpt otherwise.
C25_CandidateText ==
    rrOp.op = "rerank"
        => \A k \in 1..Len(rrOp.scored) :
            LET item == Items(rrOp.n, rrOp.shape)[rrOp.scored[k].doc]
            IN  rrOp.scored[k].text = IF item.hasContent THEN "content" ELSE "excerpt"

\* C29: after every call of rerank_results, whichever path it took, the
\* caller's list has the length and the order it was given with and none of
\* its items carries a rerank_score.
C29_InputUnchanged ==
    rrOp.op = "rerank"
        => /\ Len(rrOp.input) = rrOp.n
           /\ \A i \in 1..rrOp.n : rrOp.input[i] = Item(i, rrOp.n, rrOp.shape)
           /\ \A i \in 1..Len(rrOp.input) : ~rrOp.input[i].rerank_score.set

\* A call scored five results and returned the best two, annotated, in an
\* order other than the one given.
C29_Witness ==
    /\ rrOp.op = "rerank"
    /\ rrOp.n = 5
    /\ rrOp.top_k = 2
    /\ ScoringSucceeded
    /\ rrOp.env.pattern = "asc"
    /\ \A j \in 1..Len(rrOp.value) : rrOp.value[j].rerank_score.set
    /\ rrOp.value[1].id = 5
    /\ Len(rrOp.input) = 5

(***************************************************************************)
(* Properties of the fan-out (under SpecFanOut)                            *)
(***************************************************************************)

Failed(i) == outcome[i].exc \notin {"", "none"}

\* C1: when at least one source's search_table call has raised, search_all
\* does not return: its caller gets no result list and no row, those of the
\* succeeding sources included, and what search_all ends with is an error.
C1_AllOrNothing ==
    (\E i \in 1..N : Failed(i))
        => /\ pcS # "returned"
           /\ saResult.kind # "list"
           /\ saResult.rows = <<>>
           /\ (pcS = "raised" => saResult.kind = "error")

\* Three sources, the second failed, the other two returned rows, and
\* search_all raised.
C1_Witness ==
    /\ N = 3
    /\ pcS = "raised"
    /\ Failed(2) /\ ~Failed(1) /\ ~Failed(3)
    /\ outcome[1].exc = "" /\ outcome[1].rows # <<>>
    /\ outcome[3].exc = ""
    /\ saResult.kind = "error"
    /\ saResult.rows = <<>>

\* C5: at no time are more than 4 search_table calls running; a further
\* source stays queued while 4 are running.
C5_BoundedConcurrency == Cardinality(Running) <= 4

\* Four calls are running and a fifth source waits in the pool's queue.
C5_Witness ==
    /\ Cardinality(Running) = 4
    /\ workQueue # <<>>

\* C18: within one search_all call every source's query is submitted to the
\* store at most once, also when it failed; a source whose call has ended
\* has sent exactly one query unless it failed before reaching the store.
C18_NoRetry ==
    \A i \in 1..N :
        /\ sentQueries[i] <= 1
        /\ tstate[i] \in {"new", "queued", "running"} => sentQueries[i] = 0
        /\ outcome[i].exc \in {"", "QueryError"} => sentQueries[i] = 1

\* The second of three sources failed in the store, the others succeeded,
\* search_all has raised, and every source has sent one query.
C18_Witness ==
    /\ N = 3
    /\ pcS = "raised"
    /\ outcome[2].exc = "QueryError"
    /\ outcome[1].exc = "" /\ outcome[3].exc = ""
    /\ \A i \in 1..N : sentQueries[i] = 1

\* C17: when a config names an unsupported table, no query of the request
\* is sent to the store, for no source, and the error search_all raises is
\* the configuration error.
C17_UnknownTableFailsFast ==
    (\E i \in 1..N : cfgs[i] \notin SupportedTables)
        => /\ \A j \in 1..N : sentQueries[j] = 0
           /\ pcS # "returned"
           /\ pcS = "raised" => saResult.err.exc = "ValueError"

\* The number of rows the first n sources returned.
RECURSIVE RowCount(_)
RowCount(n) == IF n = 0 THEN 0 ELSE RowCount(n - 1) + Len(outcome[n].rows)

\* Every search_table call of the request has returned rows (or none).
AllSucceeded == \A i \in 1..N : outcome[i].exc = ""

\* C20: when every source has succeeded, search_all returns a list that
\* holds every row of every source exactly once, as many rows as the sources
\* returned together, each tagged with the table of its source's config.
C20_FanOutResult ==
    (AllSucceeded /\ pcS \in {"returned", "raised"})
        => /\ pcS = "returned"
           /\ saResult.kind = "list"
           /\ Len(saResult.rows) = RowCount(N)
           /\ \A i \in 1..N : \A j \in 1..Len(outcome[i].rows) :
                /\ Cardinality({k \in 1..Len(saResult.rows) :
                                    saResult.rows[k].id = outcome[i].rows[j].id}) = 1
                /\ \A k \in 1..Len(saResult.rows) :
                        saResult.rows[k].id = outcome[i].rows[j].id
                            => saResult.rows[k].source_table = cfgs[i]

C27_NoExecutorOutlives ==
    pcS \in {"returned", "raised"}
        => \A i \in 1..N :
            /\ tstate[i] \in {"finished", "done"}
            /\ outcome[i].exc # "none"

\* Five sources: the first failed, the others ran to completion and
\* succeeded, the fifth without the loop ever seeing it, and search_all
\* raised the first source's error.
C27_Witness ==
    /\ N = 5
    /\ pcS = "raised"
    /\ firstFailed = 1
    /\ saResult.err.src = 1
    /\ \A i \in 2..5 : outcome[i].exc = ""
    /\ tstate[5] = "finished"
    /\ sentQueries[5] = 1

\* C28: with any number of configs, if every search_table call ends, there
\* comes a time when every source's call has been started and has ended and
\* search_all has returned a result or raised an error.
C28_FanOutTerminates ==
    <>(/\ pcS \in {"returned", "raised"}
       /\ \A i \in 1..N : tstate[i] \in {"finished", "done"})

\* search_all has returned the rows of five sources.
C28_Witness ==
    /\ N = 5
    /\ pcS = "returned"
    /\ saResult.kind = "list"
    /\ \A i \in 1..N : tstate[i] = "done"

(***************************************************************************)
(* Properties of the stages after the fan-out (under SpecPipeline)         *)
(***************************************************************************)

\* The model scored the candidates and the returned items carry its scores.
RerankApplied ==
    /\ pipe.env.scoring = "ok"
    /\ \E j \in 1..Len(pipe.reranked) : pipe.reranked[j].rerank_score.set

\* C8: in every result list returned without reranking having been applied,
\* the scores do not increase from one result to the next.
C8_ScoreMonotone ==
    (pipe.pc = "final" /\ ~RerankApplied)
        => \A j \in 1..(Len(pipe.final) - 1) : pipe.final[j].score >= pipe.final[j + 1].score

\* A rerank fallback on more than 3 results, where the second source's first
\* row beat the first source's, returned at least two results of different
\* scores.
C8_Witness ==
    /\ pipe.pc = "final"
    /\ pipe.req.rerank
    /\ Len(pipe.formatted) > SmallSetSize
    /\ pipe.env.scoring = "unsortable"
    /\ Len(pipe.final) >= 2
    /\ pipe.final[1].score > pipe.final[2].score
    /\ pipe.nested[1] # <<>> /\ pipe.nested[2] # <<>>
    /\ pipe.nested[1][1].scoreKind = "num" /\ pipe.nested[2][1].scoreKind = "num"
    /\ pipe.nested[2][1].score > pipe.nested[1][1].score

\* A raw row with a usable similarity score: the key is there and not NULL.
Usable(row) == row.scoreKind = "num"

\* C13: whatever rows lack a usable similarity score, neither fusion nor
\* format_search_results raises, and the formatted list is exactly the
\* normalized forms of the other rows, in the order fusion gave them.
C13_MalformedDropped ==
    /\ pipe.pc # "failed"
    /\ pipe.pc \in {"formatted", "final"}
         => LET rest == SelectSeq(pipe.fused, Usable)
            IN  pipe.formatted = [j \in 1..Len(rest) |-> Formatted(rest[j])]

\* The raw row a formatted item was made from.
RawOf(item) == CHOOSE r \in {pipe.fused[j] : j \in 1..Len(pipe.fused)} : r.id = item.id

\* C14: the excerpt of a message or knowledge-base item is the content when
\* that has at most 200 characters (nothing for a NULL content), and else the
\* first 200 characters of the content followed by '...'.
C14_ExcerptLaw ==
    \A j \in 1..Len(pipe.formatted) :
        LET item == pipe.formatted[j]
            len == RawOf(item).contentLen
            x == item.excerpt
        IN  item.type \in {"message", "knowledge_base"}
                => /\ item.hasExcerpt
                   /\ len < 0 => x = <<>>
                   /\ (len >= 0 /\ len <= 200) => x = Content(len)
                   /\ len > 200
                        => /\ Len(x) = 203
                           /\ \A i \in 1..200 : x[i] = Content(len)[i]
                           /\ <<x[201], x[202], x[203]>> = <<".", ".", ".">>

\* A message of 201 characters got an excerpt of 203.
C14_Witness ==
    /\ pipe.pc = "formatted"
    /\ Len(pipe.formatted) = 1
    /\ pipe.formatted[1].type = "message"
    /\ pipe.fused[1].contentLen = 201
    /\ Len(pipe.formatted[1].excerpt) = 203

ScoreOf(row) == IF row.scoreKind = "num" THEN row.score ELSE 0

\* The place of a row in the concatenation of the sources' rows.
PlaceOf(row) ==
    CHOOSE k \in 1..Len(Flatten(pipe.nested)) : Flatten(pipe.nested)[k].id = row.id

\* C23: the fused sequence holds the rows of the concatenation, each once,
\* in non-increasing order of score, rows of equal score in the order of the
\* concatenation.
C23_StableDescending ==
    pipe.pc \in {"fused", "formatted", "final"}
        => /\ Len(pipe.fused) = Len(Flatten(pipe.nested))
           /\ \A k \in 1..Len(Flatten(pipe.nested)) :
                \E a \in 1..Len(pipe.fused) : pipe.fused[a] = Flatten(pipe.nested)[k]
           /\ \A a, b \in 1..Len(pipe.fused) :
                a < b => \/ ScoreOf(pipe.fused[a]) > ScoreOf(pipe.fused[b])
                         \/ /\ ScoreOf(pipe.fused[a]) = ScoreOf(pipe.fused[b])
                            /\ PlaceOf(pipe.fused[a]) < PlaceOf(pipe.fused[b])

\* Rows were moved, and two rows of equal score from different sources
\* stand in the order of their sources.
C23_Witness ==
    /\ pipe.pc = "fused"
    /\ pipe.fused # Flatten(pipe.nested)
    /\ \E a, b \in 1..Len(pipe.fused) :
        /\ a < b
        /\ ScoreOf(pipe.fused[a]) = ScoreOf(pipe.fused[b])
        /\ pipe.fused[a].source_table # pipe.fused[b].source_table
    /\ \E a \in 1..Len(pipe.fused) : PlaceOf(pipe.fused[a]) > a

(***************************************************************************)
(* Properties of the query text (under SpecBind)                           *)
(***************************************************************************)

\* The characters parameter i came in with, as they stand in the text sent.
TextOf(i) == SelectSeq(sql.text, LAMBDA c : c.of = i)

\* A value is inserted escaped when it stands between two quotes of a kind
\* that does not occur inside it, or is a number.
Escaped(p, r) ==
    IF p.kind = "int" THEN r = p.chars
    ELSE /\ Len(r) = Len(p.chars) + 2
         /\ r[1] \in {"'", "dq"}
         /\ r[Len(r)] = r[1]
         /\ \A k \in 2..(Len(r) - 1) : r[k] = p.chars[k - 1] /\ r[k] # r[1]

\* C19: in the text execute_query sends, the i-th parameter stands where the
\* i-th placeholder of the query stood, no parameter was put into another
\* parameter's text, and every filter value is inserted in escaped form.
C19_SafeBinding ==
    sql.pc = "sent"
        => /\ \A i \in 1..Len(sql.params) : sql.hits[i] = 0
           /\ \A k \in 1..Len(sql.text) : sql.text[k].ch # "%s" \/ sql.text[k].of # 0
           /\ \A i \in 3..(Len(sql.params) - 1) :
                Escaped(sql.params[i], [k \in 1..Len(TextOf(i)) |-> TextOf(i)[k].ch])

\* C22: a search_table call leaves the filters of its config as the caller
\* supplied them, keys and values.
C22_ConfigUnchanged == sql.filters = sql.given

(***************************************************************************)
(* Properties of the OCR retry loop (under SpecOcr)                        *)
(***************************************************************************)

Rounds == Len(retry_delays)

AllFailed == \A k \in 1..Len(ocr.calls) : ~ocr.calls[k].ok

\* C30: a call of extract_text_with_retry tries the models of the list in
\* list order, round after round, in at most 6 rounds; it returns at the
\* first call that succeeds, with attempts the number of calls made; it has
\* waited once after each round that another round followed, and not after
\* the last; and it raises for failed calls only after 6 x (number of
\* models) of them.
C30_RetryBound ==
    LET n == Len(ocr.models_to_try)
        made == Len(ocr.calls)
    IN  /\ ocr.attempt_count = made
        /\ made <= Rounds * n
        /\ \A k \in 1..made : ocr.calls[k].model = ocr.models_to_try[((k - 1) % n) + 1]
        /\ \A k \in 1..(made - 1) : ~ocr.calls[k].ok
        /\ (made > 0 /\ ocr.calls[made].ok) <=> ocr.pc = "returned"
        /\ ocr.pc = "returned"
            => /\ ocr.result.attempts = made
               /\ ocr.result.model_used = ocr.calls[made].model
        /\ Len(ocr.slept) <= Rounds - 1
        /\ \A k \in 1..Len(ocr.slept) :
            /\ ocr.slept[k].delay = retry_delays[k]
            /\ ocr.slept[k].after = k * n
        /\ ocr.pc = "call" => Len(ocr.slept) = made \div n
        /\ ocr.pc = "returned" => Len(ocr.slept) = (made - 1) \div n
        /\ (ocr.pc = "raised" /\ made > 0)
            => /\ AllFailed
               /\ made = Rounds * n
               /\ Len(ocr.slept) = Rounds - 1
        /\ (AllFailed /\ n > 0 /\ made = Rounds * n) => ocr.pc = "raised"

\* With three models every call of six rounds failed: 18 calls, five waits,
\* and the error raised.
C30_Witness ==
    /\ ocr.pc = "raised"
    /\ ocr.error = "OCR failed"
    /\ Len(ocr.models_to_try) = 3
    /\ Len(ocr.calls) = 18
    /\ Len(ocr.slept) = 5
    /\ ocr.slept[5].delay = 16

====
